---- MODULE Spec2Model ----
(***************************************************************************)
(* A model of soggy: connection-id allocation (src/src/id.rs) and the      *)
(* per-protocol connection APIs that tunnel TCP / HTTP / HTTPS over one    *)
(* WebSocket (src/src/connection_apis/*.rs).                               *)
(***************************************************************************)
EXTENDS Integers, Sequences, FiniteSets, TLC

VARIABLES
    \* ---- ConnIdFactory (id.rs) ----
    now,          \* the wall clock (SystemTime::now()), in ticks
    last_time,    \* ConnIdFactory.last_time, in ticks
    incr,         \* ConnIdFactory.incr (u8)
    last_id,      \* the ConnId returned by the latest generate, or NoId
    prev_id,      \* a ConnId returned by an earlier generate, or NoId
    \* ---- one Connection and its API object (connection_apis/*.rs) ----
    protocol,     \* which wrapper owns the connection: "tcp", "http", "https"
    ready_state,  \* WebSocket.readyState: 0 connecting, 1 open, 2 closing, 3 closed
    listeners,    \* the "message" listeners registered on the socket, in order
    outbox,       \* the frames handed to socket.send, in order
    inbox,        \* the frames the socket has dispatched so far, in order
    calls,        \* the invocations of the callbacks passed to send, in order
    nsends,       \* number of successful sends so far (numbers the callbacks)
    result,       \* what the latest send returned: "none", "ok", or the error
    close_called, \* close() has been called on the API object
    pending,      \* the frames the far end has still to deliver, when scripted
    \* ---- one call chain of the codecs and resolvers (lib.rs, id.rs, ...) ----
    input,        \* the argument the chain starts from, tagged with its kind
    steps,        \* the calls made so far, in order: [fn, ret] records
    \* ---- the mutexes of one send's accumulator (http.rs:189-195, 204-268) ----
    guards,       \* for each of the four mutexes, the invocation holding it, or 0
    handlers,     \* where each invocation of the message callback stands
    \* ---- the API objects of the connection (client.rs, connection.rs) ----
    in_send,      \* the send call under way and the step it is at, or NoSend
    handles       \* the live clones of the Connection: 0 is the client's list
                  \* entry, the others belong to API objects

idvars   == <<now, last_time, incr, last_id, prev_id>>
connvars == <<protocol, ready_state, listeners, outbox, inbox, calls, nsends,
              result, close_called, pending>>
callvars == <<input, steps>>
lockvars == <<guards, handlers>>
apivars  == <<in_send, handles>>
vars     == <<now, last_time, incr, last_id, prev_id,
              protocol, ready_state, listeners, outbox, inbox, calls, nsends,
              result, close_called, pending, input, steps, guards, handlers,
              in_send, handles>>

----------------------------------------------------------------------------
(* Bounds of the model *)

\* the clock has sub-millisecond resolution: this many ticks per millisecond
TicksPerMs == 2
\* the clock stops advancing at this tick
MaxClock == 3
\* how far the clock may advance between the two reads of one generate call
MaxDrift == 1
\* how many frames the far end delivers on the connection
MaxFrames == 2
\* how many successful sends are made on the connection
MaxSends == 2
\* into how many frames, at most, the far end cuts one response stream
MaxPieces == 3

----------------------------------------------------------------------------
(* SocketCapability and its wire code: lib.rs, id.rs *)

TLSVersions == {"TLSv1_0", "TLSv1_1", "TLSv1_2", "TLSv1_3"}

SocketCapability ==
    {<<"TCP">>, <<"HTTP">>} \cup {<<"HTTPS", v>> : v \in TLSVersions}

\* TLS 1.3 shares the wire code of TLS 1.2
CapabilityToU8_Tls13As22(c) ==
    CASE c = <<"TCP">>                -> 0
      [] c = <<"HTTP">>               -> 10
      [] c = <<"HTTPS", "TLSv1_0">>   -> 20
      [] c = <<"HTTPS", "TLSv1_1">>   -> 21
      [] c = <<"HTTPS", "TLSv1_2">>   -> 22
      [] c = <<"HTTPS", "TLSv1_3">>   -> 22

\* impl Into<u8> for SocketCapability
CapabilityToU8(c) ==
    CASE c = <<"TCP">>                -> 0
      [] c = <<"HTTP">>               -> 10
      [] c = <<"HTTPS", "TLSv1_0">>   -> 20
      [] c = <<"HTTPS", "TLSv1_1">>   -> 21
      [] c = <<"HTTPS", "TLSv1_2">>   -> 22
      [] c = <<"HTTPS", "TLSv1_3">>   -> 23

\* the capabilities generate is called with in the model
GenCaps == {<<"TCP">>, <<"HTTP">>}

----------------------------------------------------------------------------
(* ConnId and ConnIdFactory: id.rs *)

NoId == [time |-> -1, conn_type |-> 0, incr |-> 0]

U8Max == 255

\* a | b on unsigned integers, bit by bit
RECURSIVE BitOr(_, _)
BitOr(a, b) ==
    IF a = 0 THEN b
    ELSE IF b = 0 THEN a
    ELSE (IF a % 2 = 1 \/ b % 2 = 1 THEN 1 ELSE 0)
             + 2 * BitOr(a \div 2, b \div 2)

\* a & b on unsigned integers, bit by bit
RECURSIVE BitAnd(_, _)
BitAnd(a, b) ==
    IF a = 0 \/ b = 0 THEN 0
    ELSE (IF a % 2 = 1 /\ b % 2 = 1 THEN 1 ELSE 0)
             + 2 * BitAnd(a \div 2, b \div 2)

\* x << n and x >> n on a u64; the times of the model stay far below 2^48,
\* where the left shift by 16 loses no bit
Shl(x, n) == x * (2 ^ n)
Shr(x, n) == x \div (2 ^ n)

\* the capability code is shifted by 4 bits only and runs into the counter
Pack_ShortShift(id) ==
    BitOr(BitOr(Shl(id.time, 16), Shl(id.conn_type, 4)), id.incr)

\* impl Into<u64> for ConnId: (time << 16) | (conn_type << 8) | incr
Pack(id) ==
    BitOr(BitOr(Shl(id.time, 16), Shl(id.conn_type, 8)), id.incr)

\* the capability code is read without the 0xFF mask
ConnIdFromU64_NoMask(value) ==
    [time      |-> Shr(value, 16),
     conn_type |-> Shr(value, 8),
     incr      |-> BitAnd(value, U8Max)]

\* impl From<u64> for ConnId: the three fields are read back by shift and
\* mask; conn_type stays a raw u8 (the .into() of line 68 is u8 to u8)
ConnIdFromU64(value) ==
    [time      |-> Shr(value, 16),
     conn_type |-> BitAnd(Shr(value, 8), U8Max),
     incr      |-> BitAnd(value, U8Max)]

\* SystemTime::duration_since(..).as_millis(): whole milliseconds elapsed
SinceMillis(t1, t0) == (t1 - t0) \div TicksPerMs

\* duration_since(UNIX_EPOCH).as_millis(): the clock starts at the epoch
EpochMillis(t) == t \div TicksPerMs

\* the counter is left alone when the call falls in the same millisecond
NextIncr_NoBump(t1) ==
    IF SinceMillis(t1, last_time) = 0
    THEN IF incr = U8Max THEN 0 ELSE incr
    ELSE 0

\* the counter after the branch of lines 25-34, given the first clock read t1
NextIncr(t1) ==
    IF SinceMillis(t1, last_time) = 0
    THEN IF incr = U8Max THEN 0 ELSE incr + 1
    ELSE 0

\* the saturated counter wraps without waiting for the next millisecond
Sleeps_Never(t1) == FALSE

\* thread::sleep(1 ms) of line 27 is taken exactly on this branch
Sleeps(t1) == SinceMillis(t1, last_time) = 0 /\ incr = U8Max

\* the sleep returns one tick short of a millisecond
SleepTicks_Short == TicksPerMs - 1

\* thread::sleep(Duration::from_millis(1)): at least one millisecond passes
SleepTicks == TicksPerMs

\* ConnIdFactory::new followed by nothing: last_time = now, incr = 0
InitId ==
    /\ now \in 0..(TicksPerMs - 1)
    /\ last_time = now
    /\ incr = 0
    /\ last_id = NoId
    /\ prev_id = NoId

\* the wall clock advances
Tick ==
    /\ now < MaxClock
    /\ now' = now + 1
    /\ UNCHANGED <<last_time, incr, last_id, prev_id>>

\* ConnIdFactory::generate(conn_type).  The clock is read twice (lines 22 and
\* 36); between the reads it advances by drift ticks, and by at least one
\* millisecond more when the call sleeps.
generate(conn_type, drift) ==
    LET t1 == now
        t2 == t1 + drift + (IF Sleeps(t1) THEN SleepTicks ELSE 0)
    IN  /\ t2 <= MaxClock
        /\ incr' = NextIncr(t1)
        /\ last_time' = t2
        /\ now' = t2
        /\ last_id' = [time      |-> EpochMillis(t2),
                       conn_type |-> CapabilityToU8(conn_type),
                       incr      |-> NextIncr(t1)]

\* a generate call of the client (client.rs: create_*_connection,
\* generate_id); prev_id remembers the id returned by the call before it
Generate ==
    /\ \E c \in GenCaps, drift \in 0..MaxDrift : generate(c, drift)
    /\ prev_id' = last_id

\* the same call, where prev_id remembers the id of any one earlier call
GenerateMark ==
    /\ \E c \in GenCaps, drift \in 0..MaxDrift : generate(c, drift)
    /\ prev_id' \in {prev_id, last_id}

\* no send call is under way
NoSend == [step |-> 0]

\* Connection::new: a socket that is still connecting, nothing registered
ConnIdle ==
    /\ in_send = NoSend
    /\ handles = {}
    /\ protocol = "http"
    /\ ready_state = 0
    /\ listeners = <<>>
    /\ outbox = <<>>
    /\ inbox = <<>>
    /\ calls = <<>>
    /\ nsends = 0
    /\ result = "none"
    /\ close_called = FALSE
    /\ pending = <<>>

\* no codec or resolver call is under way
CallIdle ==
    /\ input = [kind |-> "none"]
    /\ steps = <<>>

\* http.rs:204-207: the mutexes in the order the callback locks them
LockOrder ==
    <<"response_code", "response_headers", "response_body", "content_length">>

\* no callback invocation has been made and no mutex is held
LockIdle ==
    /\ guards = [m \in 1..Len(LockOrder) |-> 0]
    /\ handlers = [i \in 1..MaxFrames |-> [at |-> "none", n |-> 0]]

IdInit == InitId /\ ConnIdle /\ CallIdle /\ LockIdle

IdNext ==
    \/ Tick /\ UNCHANGED <<connvars, callvars, lockvars, apivars>>
    \/ Generate /\ UNCHANGED <<connvars, callvars, lockvars, apivars>>

IdSpec == IdInit /\ [][IdNext]_vars

UniqNext ==
    \/ Tick /\ UNCHANGED <<connvars, callvars, lockvars, apivars>>
    \/ GenerateMark /\ UNCHANGED <<connvars, callvars, lockvars, apivars>>

UniqSpec == IdInit /\ [][UniqNext]_vars

----------------------------------------------------------------------------
(* Claims about ConnIdFactory *)

\* two ids have been returned, prev_id by an earlier call than last_id
TwoIds == prev_id # NoId /\ last_id # NoId

C2_PackedIdsDistinct ==
    TwoIds => Pack(last_id) # Pack(prev_id)

\* an id issued with a saturated counter, and a later id of the same
\* capability whose counter is back at 0
C2_Witness ==
    /\ TwoIds
    /\ prev_id.incr = U8Max
    /\ last_id.incr = 0
    /\ last_id.conn_type = prev_id.conn_type

----------------------------------------------------------------------------
(* Bytes and strings.  A byte string is a sequence of bytes; a printable   *)
(* ASCII byte is written as itself, CR and LF by name, and "xFF" is the    *)
(* byte 0xFF, which no UTF-8 text contains ("xEF" "xBF" "xBD" encode       *)
(* U+FFFD).                                                                *)

CRLF == <<"CR", "LF">>
Space == <<" ">>
ColonSpace == <<":", " ">>
ContentLengthName ==
    <<"C", "o", "n", "t", "e", "n", "t", "-", "L", "e", "n", "g", "t", "h">>

Digits == <<"0", "1", "2", "3", "4", "5", "6", "7", "8", "9">>
IsDigit(c) == \E d \in 1..10 : Digits[d] = c
DigitVal(c) == (CHOOSE d \in 1..10 : Digits[d] = c) - 1

U16Max == 65535

\* String::from_utf8 succeeds
IsUtf8(bytes) == \A i \in 1..Len(bytes) : bytes[i] # "xFF"

\* str::split(pat): the pieces between the matches of pat, found left to
\* right without overlap; always at least one piece
RECURSIVE SplitAt(_, _, _, _)
SplitAt(s, pat, i, cur) ==
    IF i > Len(s) THEN <<cur>>
    ELSE IF i + Len(pat) - 1 <= Len(s) /\ SubSeq(s, i, i + Len(pat) - 1) = pat
         THEN <<cur>> \o SplitAt(s, pat, i + Len(pat), <<>>)
         ELSE SplitAt(s, pat, i + 1, Append(cur, s[i]))

Split(s, pat) == SplitAt(s, pat, 1, <<>>)

\* the digits of str::parse for an unsigned type with maximum max; -1 is Err
RECURSIVE ParseDigits(_, _, _)
ParseDigits(s, acc, max) ==
    IF s = <<>> THEN acc
    ELSE IF ~IsDigit(Head(s)) THEN -1
    ELSE LET v == (acc * 10) + DigitVal(Head(s))
         IN  IF v > max THEN -1 ELSE ParseDigits(Tail(s), v, max)

\* str::parse::<uN>(): an optional "+", then one or more digits, in range
ParseUInt(s, max) ==
    LET d == IF s # <<>> /\ Head(s) = "+" THEN Tail(s) ELSE s
    IN  IF d = <<>> THEN -1 ELSE ParseDigits(d, 0, max)

\* str::parse::<usize>(); usize::MAX is beyond the lengths of the model
ParseUsize(s) == ParseUInt(s, 1000000)

\* Iterator::take_while(|line| !line.is_empty())
RECURSIVE TakeWhileNonEmpty(_)
TakeWhileNonEmpty(ls) ==
    IF ls = <<>> \/ Head(ls) = <<>> THEN <<>>
    ELSE <<Head(ls)>> \o TakeWhileNonEmpty(Tail(ls))

\* Iterator::skip_while(|line| !line.is_empty())
RECURSIVE SkipWhileNonEmpty(_)
SkipWhileNonEmpty(ls) ==
    IF ls = <<>> \/ Head(ls) = <<>> THEN ls
    ELSE SkipWhileNonEmpty(Tail(ls))

\* Iterator::skip(1)
Skip1(ls) == IF ls = <<>> THEN <<>> ELSE Tail(ls)

\* for_each(|line| body.extend_from_slice(line.as_bytes()))
RECURSIVE Concat(_)
Concat(ls) == IF ls = <<>> THEN <<>> ELSE Head(ls) \o Concat(Tail(ls))

----------------------------------------------------------------------------
(* Request serialisation: macros.rs *)

\* format!("{}", n) for an unsigned n
RECURSIVE FormatUInt(_)
FormatUInt(n) ==
    IF n < 10 THEN <<Digits[n + 1]>>
    ELSE FormatUInt(n \div 10) \o <<Digits[(n % 10) + 1]>>

\* String::from_utf8_lossy: a byte that is no UTF-8 becomes U+FFFD
RECURSIVE FromUtf8Lossy(_)
FromUtf8Lossy(bytes) ==
    IF bytes = <<>> THEN <<>>
    ELSE (IF Head(bytes) = "xFF" THEN <<"xEF", "xBF", "xBD">> ELSE <<Head(bytes)>>)
         \o FromUtf8Lossy(Tail(bytes))

\* the header lines are written last header first
RECURSIVE HeaderLines_Reversed(_)
HeaderLines_Reversed(hs) ==
    IF hs = <<>> THEN <<>>
    ELSE HeaderLines_Reversed(Tail(hs))
         \o Head(hs).name \o ColonSpace \o Head(hs).value \o CRLF

\* for header in headers { push_str("{name}: {value}\r\n") }
RECURSIVE HeaderLines(_)
HeaderLines(hs) ==
    IF hs = <<>> THEN <<>>
    ELSE Head(hs).name \o ColonSpace \o Head(hs).value \o CRLF
         \o HeaderLines(Tail(hs))

\* format!("{} {} HTTP/1.1\r\n", method, path)
RequestLine(method, path) ==
    method \o Space \o path \o Space
    \o <<"H", "T", "T", "P", "/", "1", ".", "1">> \o CRLF

\* Option<Vec<u8>>: None, or <<bytes>> for Some(bytes)
None == <<>>
Some(x) == <<x>>

\* a request without body gets a Content-Length: 0 line all the same
http_LengthAlways(method, path, headers, body) ==
    RequestLine(method, path) \o HeaderLines(headers)
    \o ContentLengthName \o ColonSpace
    \o FormatUInt(IF body # None THEN Len(body[1]) ELSE 0)
    \o CRLF \o CRLF \o (IF body # None THEN FromUtf8Lossy(body[1]) ELSE <<>>)

\* http!(method, path, headers, body) and http!(method, path, headers),
\* chosen by the if let Some(body) of http.rs:182-186
http(method, path, headers, body) ==
    IF body # None
    THEN RequestLine(method, path) \o HeaderLines(headers)
         \o ContentLengthName \o ColonSpace \o FormatUInt(Len(body[1]))
         \o CRLF \o CRLF \o FromUtf8Lossy(body[1])
    ELSE RequestLine(method, path) \o HeaderLines(headers) \o CRLF

----------------------------------------------------------------------------
(* The "message" listeners of the three API objects *)

\* a message whose data is a string and not an ArrayBuffer
TextFrame == <<"text">>

NotOpenError == "Connection is not open"

\* https.rs:243
TlsMagicLen == 4011

\* the closure state created by one send: the accumulator cells of
\* http.rs:189-195 and https.rs:217, whether the closure's mutex guards are
\* still held by an invocation that threw, and which send created it.
\* since and first are bookkeeping: the number of frames dispatched before
\* the listener was registered, and the frame that set response_code.
NewListener(kind, id, since) ==
    [kind |-> kind, id |-> id, once |-> (kind = "tcp"),
     response_code |-> 0, response_headers |-> <<>>, response_body |-> <<>>,
     content_length |-> 0, encoded_response |-> <<>>, tls_read |-> FALSE,
     locked |-> FALSE, since |-> since, first |-> 0]

\* an invocation that returns nothing to the caller
Quiet(l) == [l |-> l, call |-> <<>>]

\* unwrap_throw() after the guards were taken: the exception leaves the
\* closure without running destructors, so the guards are never released
Throw(l) == [l |-> [l EXCEPT !.locked = TRUE], call |-> <<>>]

\* the completion test always passes
Complete_Always(body, content_length) == TRUE

\* the completion test is strict
Complete_Strict(body, content_length) == Len(body) > content_length

\* http.rs:251  response_body.len() >= *content_length
Complete(body, content_length) == Len(body) >= content_length

\* http.rs:251-263: the completion check and the callback
Finish(l) ==
    [l |-> l,
     call |-> IF Complete(l.response_body, l.content_length)
              THEN <<[code    |-> l.response_code,
                      headers |-> l.response_headers,
                      body    |-> Some(l.response_body)]>>
              ELSE <<>>]

\* the header name is compared without regard to letter case
IsContentLength_AnyCase(name) ==
    name \in {ContentLengthName,
              <<"c", "o", "n", "t", "e", "n", "t", "-", "l", "e", "n", "g",
                "t", "h">>}

\* http.rs:234  name == "Content-Length"
IsContentLength(name) == name = ContentLengthName

\* http.rs:227-238: the header lines in order; acc holds the headers pushed
\* and the content length set so far, ok turns false at the first throw
RECURSIVE ParseHeaders(_, _)
ParseHeaders(ls, acc) ==
    IF ls = <<>> \/ ~acc.ok THEN acc
    ELSE LET split == Split(Head(ls), ColonSpace)
             name  == split[1]
         IN  IF Len(split) < 2 THEN [acc EXCEPT !.ok = FALSE]
             ELSE LET value == split[2]
                      cl == IF IsContentLength(name)
                            THEN ParseUsize(value)
                            ELSE acc.content_length
                  IN  IF cl = -1 THEN [acc EXCEPT !.ok = FALSE]
                      ELSE ParseHeaders(Tail(ls),
                               [headers |-> Append(acc.headers,
                                              [name |-> name, value |-> value]),
                                content_length |-> cl,
                                ok |-> TRUE])

\* the header lines are not skipped before the body is collected
BodyLines_NoSkip(rest) == rest

\* http.rs:240-242: lines.skip_while(|line| !line.is_empty()).skip(1)
BodyLines(rest) == Skip1(SkipWhileNonEmpty(rest))

\* http.rs:211-245: the first frame of a response (response_code is 0)
FirstFrame(l, frame, idx) ==
    IF ~IsUtf8(frame) THEN Throw(l)
    ELSE
    LET lines == Split(frame, CRLF)
        toks  == Split(lines[1], Space)
        code  == IF Len(toks) < 2 THEN -1 ELSE ParseUInt(toks[2], U16Max)
    IN  IF code = -1 THEN Throw(l)
        ELSE
        LET rest == Tail(lines)
            h  == ParseHeaders(TakeWhileNonEmpty(rest),
                               [headers |-> l.response_headers,
                                content_length |-> l.content_length,
                                ok |-> TRUE])
            l2 == [l EXCEPT !.response_code = code,
                            !.first = idx,
                            !.response_headers = h.headers,
                            !.content_length = h.content_length]
        IN  IF ~h.ok THEN Throw(l2)
            ELSE Finish([l2 EXCEPT !.response_body =
                            @ \o Concat(BodyLines(rest))])

\* the chunk is appended with its CR LF pairs taken out, as the body of a
\* first frame is
AppendChunk_SplitLines(l, frame) ==
    [l EXCEPT !.response_body = @ \o Concat(Split(frame, CRLF))]

\* http.rs:246-249: response_body.extend_from_slice(&bytes)
AppendChunk(l, frame) == [l EXCEPT !.response_body = @ \o frame]

\* http.rs:197-269: message_callback of HttpConnectionApi::send
HttpOnMessage(l, frame, idx) ==
    IF frame = TextFrame THEN Quiet(l)
    ELSE IF l.locked THEN Quiet(l)
    ELSE IF l.response_code = 0 THEN FirstFrame(l, frame, idx)
    ELSE Finish(AppendChunk(l, frame))

\* tcp.rs:102-113: message_callback of TcpConnectionApi::send
TcpOnMessage(l, frame, idx) ==
    IF frame = TextFrame THEN Quiet(l)
    ELSE [l |-> l, call |-> <<[body |-> frame]>>]

\* https.rs:227-269: message_callback of HttpsConnectionApi::send
HttpsOnMessage(l, frame, idx) ==
    IF frame = TextFrame THEN Quiet(l)
    ELSE IF l.locked THEN Quiet(l)
    ELSE LET enc == l.encoded_response \o frame
         IN  Quiet([l EXCEPT !.encoded_response = enc,
                             !.tls_read = @ \/ Len(enc) = TlsMagicLen])

OnMessage(l, frame, idx) ==
    CASE l.kind = "http"  -> HttpOnMessage(l, frame, idx)
      [] l.kind = "tcp"   -> TcpOnMessage(l, frame, idx)
      [] l.kind = "https" -> HttpsOnMessage(l, frame, idx)

\* the socket dispatches one message event: every registered listener runs,
\* in registration order; a listener added with once(true) is removed.
\* Each callback invocation is recorded with the send it belongs to (cb),
\* the frame being handled and content_length at that moment (expected).
RECURSIVE Dispatch(_, _, _)
Dispatch(ls, frame, idx) ==
    IF ls = <<>> THEN [ls |-> <<>>, calls |-> <<>>]
    ELSE LET r    == OnMessage(Head(ls), frame, idx)
             tail == Dispatch(Tail(ls), frame, idx)
             made == [c \in 1..Len(r.call) |->
                         [cb |-> Head(ls).id, frame |-> idx,
                          response |-> r.call[c],
                          expected |-> r.l.content_length]]
         IN  [ls    |-> (IF Head(ls).once THEN <<>> ELSE <<r.l>>) \o tail.ls,
              calls |-> made \o tail.calls]

----------------------------------------------------------------------------
(* The frames the far end delivers *)

\* status line, Content-Length: 5, blank line, 3 body bytes
RespLen5_abc ==
    <<"H", "T", "T", "P", "/", "1", ".", "1", " ", "2", "0", "0", " ",
      "O", "K", "CR", "LF", "C", "o", "n", "t", "e", "n", "t", "-", "L",
      "e", "n", "g", "t", "h", ":", " ", "5", "CR", "LF", "CR", "LF",
      "a", "b", "c">>

\* status line, one header that is not Content-Length, blank line, and a
\* body with CR LF inside
RespNoLen_CrLf ==
    <<"H", "T", "T", "P", "/", "1", ".", "1", " ", "2", "0", "0", " ",
      "O", "K", "CR", "LF", "H", "o", "s", "t", ":", " ", "a", "CR",
      "LF", "CR", "LF", "h", "CR", "LF", "i">>

\* status line, Content-Length: 4, blank line, a body with CR LF inside
RespLen4_CrLf ==
    <<"H", "T", "T", "P", "/", "1", ".", "1", " ", "2", "0", "0", " ",
      "O", "K", "CR", "LF", "C", "o", "n", "t", "e", "n", "t", "-", "L",
      "e", "n", "g", "t", "h", ":", " ", "4", "CR", "LF", "CR", "LF",
      "a", "CR", "LF", "b">>

\* status line and a header line without ": "
RespBadHeader ==
    <<"H", "T", "T", "P", "/", "1", ".", "1", " ", "2", "0", "0", " ",
      "O", "K", "CR", "LF", "H", "o", "s", "t", "CR", "LF", "CR", "LF">>

\* two raw body bytes, the second one no UTF-8
Chunk_dFF ==
    <<"d", "xFF">>

\* a raw CR LF
Chunk_CrLf ==
    <<"CR", "LF">>

\* a complete well-formed response: Content-Length: 2 and 2 body bytes
WholeStream ==
    <<"H", "T", "T", "P", "/", "1", ".", "1", " ", "2", "0", "0", " ",
      "O", "K", "CR", "LF", "C", "o", "n", "t", "e", "n", "t", "-", "L",
      "e", "n", "g", "t", "h", ":", " ", "2", "CR", "LF", "CR", "LF",
      "a", "b">>

\* status line, a header, a header whose value holds ": ", the first
\* header's name again, blank line
RespThreeHeaders ==
    <<"H", "T", "T", "P", "/", "1", ".", "1", " ", "2", "0", "0", " ",
      "O", "K", "CR", "LF", "A", ":", " ", "1", "CR", "LF", "X", ":",
      " ", "a", ":", " ", "b", "CR", "LF", "A", ":", " ", "2", "CR", "LF",
      "CR", "LF">>

\* status line, content-length: 5 in lower case, blank line, 3 body bytes
RespLowerLen5_abc ==
    <<"H", "T", "T", "P", "/", "1", ".", "1", " ", "2", "0", "0", " ",
      "O", "K", "CR", "LF", "c", "o", "n", "t", "e", "n", "t", "-", "l",
      "e", "n", "g", "t", "h", ":", " ", "5", "CR", "LF", "CR", "LF",
      "a", "b", "c">>

\* a status line whose second token is no number
RespBadStatus ==
    <<"H", "T", "T", "P", "/", "1", ".", "1", " ", "a", "b", "c", " ",
      "O", "K", "CR", "LF", "H", "o", "s", "t", ":", " ", "a", "CR",
      "LF", "CR", "LF">>

\* status line, a header, and a Content-Length that is no number
RespBadLength ==
    <<"H", "T", "T", "P", "/", "1", ".", "1", " ", "2", "0", "0", " ",
      "O", "K", "CR", "LF", "H", "o", "s", "t", ":", " ", "a", "CR",
      "LF", "C", "o", "n", "t", "e", "n", "t", "-", "L", "e", "n", "g",
      "t", "h", ":", " ", "x", "CR", "LF", "CR", "LF">>

Frames ==
    {RespLen5_abc, RespNoLen_CrLf, RespLen4_CrLf, RespBadHeader,
     Chunk_dFF, Chunk_CrLf, TextFrame}

\* the requests handed to send
GetRequest ==
    [method |-> <<"G", "E", "T">>, path |-> <<"/">>, headers |-> <<>>,
     body |-> None]

PostRequest ==
    [method |-> <<"P", "O", "S", "T">>, path |-> <<"/", "x">>,
     headers |-> <<[name |-> <<"H", "o", "s", "t">>, value |-> <<"a">>]>>,
     body |-> Some(<<"h", "i">>)]

Requests == {GetRequest, PostRequest}

\* what HttpsConnectionApi::send transmits: the records write_tls drains
\* from a fresh rustls ClientConnection (https.rs:205-211), one opaque frame
TlsFirstFlight == <<"ClientHello">>

----------------------------------------------------------------------------
(* The connection: socket events and the API object's operations *)

\* the guard of send is on a socket that is merely not connecting
IsOpen_NotConnecting(rs) == rs # 0

\* (self.connection.socket.ready_state() as u16) != 1 is false
IsOpen(rs) == rs = 1

\* close() leaves the socket as it is
ReadyAfterClose_Unchanged(rs) == rs

\* socket.close(): an open or connecting socket starts closing
ReadyAfterClose(rs) == IF rs \in {2, 3} THEN rs ELSE 2

IdIdle ==
    /\ now = 0
    /\ last_time = 0
    /\ incr = 0
    /\ last_id = NoId
    /\ prev_id = NoId

\* Connection::new for each of the three wrappers
ConnNew ==
    /\ in_send = NoSend
    /\ handles = {0, 1}
    /\ protocol \in {"tcp", "http", "https"}
    /\ ready_state = 0
    /\ listeners = <<>>
    /\ outbox = <<>>
    /\ inbox = <<>>
    /\ calls = <<>>
    /\ nsends = 0
    /\ result = "none"
    /\ close_called = FALSE

\* the socket's open event
Open ==
    /\ ready_state = 0
    /\ ready_state' = 1
    /\ UNCHANGED <<protocol, listeners, outbox, inbox, calls, nsends, result,
                   close_called, pending>>

\* the far end or the network ends the connection
TransportClosed ==
    /\ ready_state # 3
    /\ ready_state' = 3
    /\ UNCHANGED <<protocol, listeners, outbox, inbox, calls, nsends, result,
                   close_called, pending>>

\* send of the three wrappers, with the listener kind and the bytes
\* that are transmitted
send(kind, bytes) ==
    IF ~IsOpen(ready_state)
    THEN /\ result' = NotOpenError
         /\ UNCHANGED <<protocol, ready_state, listeners, outbox, inbox, calls,
                        nsends, close_called, pending>>
    ELSE /\ nsends < MaxSends
         /\ listeners' = Append(listeners,
                                NewListener(kind, nsends + 1, Len(inbox)))
         /\ outbox' = Append(outbox, bytes)
         /\ nsends' = nsends + 1
         /\ result' = "ok"
         /\ UNCHANGED <<protocol, ready_state, inbox, calls, close_called,
                        pending>>

\* HttpConnectionApi::send
HttpSend ==
    /\ protocol = "http"
    /\ \E data \in Requests :
          send("http", http(data.method, data.path, data.headers, data.body))

\* TcpConnectionApi::send
TcpSend ==
    /\ protocol = "tcp"
    /\ \E data \in Requests :
          data.body # None /\ send("tcp", data.body[1])

\* HttpsConnectionApi::send
HttpsSend ==
    /\ protocol = "https"
    /\ \E data \in Requests : send("https", TlsFirstFlight)

\* close() of the three wrappers
Close ==
    /\ ready_state' = ReadyAfterClose(ready_state)
    /\ close_called' = TRUE
    /\ UNCHANGED <<protocol, listeners, outbox, inbox, calls, nsends, result,
                   pending>>

\* the socket fires a message event for one received frame; it does so only
\* while readyState is OPEN
OnFrame(frame) ==
    LET idx == Len(inbox) + 1
        d   == Dispatch(listeners, frame, idx)
    IN  /\ ready_state = 1
        /\ listeners' = d.ls
        /\ calls' = calls \o d.calls
        /\ inbox' = Append(inbox, frame)
        /\ UNCHANGED <<protocol, ready_state, outbox, nsends, result,
                       close_called>>

\* the far end delivers any frame
Deliver ==
    /\ Len(inbox) < MaxFrames
    /\ \E frame \in Frames : OnFrame(frame)
    /\ UNCHANGED pending

\* the far end delivers the next piece of the response stream it was given
DeliverNext ==
    /\ pending # <<>>
    /\ OnFrame(Head(pending))
    /\ pending' = Tail(pending)

\* every way of cutting the byte string s into at most n frames, in order
RECURSIVE CutsOf(_, _)
CutsOf(s, n) ==
    IF n <= 1 \/ Len(s) <= 1 THEN {<<s>>}
    ELSE {<<s>>} \cup
         UNION {{<<SubSeq(s, 1, k)>> \o r :
                    r \in CutsOf(SubSeq(s, k + 1, Len(s)), n - 1)} :
                k \in 1..(Len(s) - 1)}

Init == IdIdle /\ ConnNew /\ pending = <<>> /\ CallIdle /\ LockIdle

Next ==
    \/ Open /\ UNCHANGED <<idvars, callvars, lockvars, apivars>>
    \/ TransportClosed /\ UNCHANGED <<idvars, callvars, lockvars, apivars>>
    \/ HttpSend /\ UNCHANGED <<idvars, callvars, lockvars, apivars>>
    \/ TcpSend /\ UNCHANGED <<idvars, callvars, lockvars, apivars>>
    \/ HttpsSend /\ UNCHANGED <<idvars, callvars, lockvars, apivars>>
    \/ Close /\ UNCHANGED <<idvars, callvars, lockvars, apivars>>
    \/ Deliver /\ UNCHANGED <<idvars, callvars, lockvars, apivars>>

Spec == Init /\ [][Next]_vars

\* an HTTP connection whose far end answers with WholeStream, cut into
\* frames in some way
CutInit ==
    /\ IdIdle
    /\ ConnNew
    /\ protocol = "http"
    /\ pending \in CutsOf(WholeStream, MaxPieces)
    /\ CallIdle
    /\ LockIdle

CutNext ==
    \/ Open /\ UNCHANGED <<idvars, callvars, lockvars, apivars>>
    \/ HttpSend /\ UNCHANGED <<idvars, callvars, lockvars, apivars>>
    \/ DeliverNext /\ UNCHANGED <<idvars, callvars, lockvars, apivars>>

CutSpec == CutInit /\ [][CutNext]_vars

\* the frames of a scripted answer: well-formed and malformed first frames
\* and a raw chunk
ScriptFrames ==
    {RespLen5_abc, RespThreeHeaders, RespLowerLen5_abc, RespBadStatus,
     RespBadHeader, RespBadLength, Chunk_dFF}

\* an HTTP connection whose far end sends up to MaxFrames of these frames
ScriptInit ==
    /\ IdIdle
    /\ ConnNew
    /\ protocol = "http"
    /\ pending \in UNION {[1..n -> ScriptFrames] : n \in 0..MaxFrames}
    /\ CallIdle
    /\ LockIdle

ScriptNext ==
    \/ Open /\ UNCHANGED <<idvars, callvars, lockvars, apivars>>
    \/ HttpSend /\ UNCHANGED <<idvars, callvars, lockvars, apivars>>
    \/ DeliverNext /\ UNCHANGED <<idvars, callvars, lockvars, apivars>>

ScriptSpec == ScriptInit /\ [][ScriptNext]_vars

----------------------------------------------------------------------------
(* Claims about HTTP reassembly and the connection's life cycle *)

\* the invocations of the callback that the n-th send registered
CallsOf(n) == {i \in DOMAIN calls : calls[i].cb = n}

\* the listener that the n-th send registered
ListenerOf(n) == listeners[CHOOSE k \in DOMAIN listeners : listeners[k].id = n]

\* the bytes of frames from..to of the inbox, in arrival order
RECURSIVE RawBytes(_, _)
RawBytes(from, to) ==
    IF from > to THEN <<>>
    ELSE (IF inbox[from] = TextFrame THEN <<>> ELSE inbox[from])
         \o RawBytes(from + 1, to)

\* the index of the first blank line (CR LF CR LF) of a frame, 0 if none
BlankLineAt(f) ==
    LET hits == {k \in 1..(Len(f) - 3) : SubSeq(f, k, k + 3) = CRLF \o CRLF}
    IN  IF hits = {} THEN 0 ELSE CHOOSE k \in hits : \A j \in hits : k <= j

\* every byte of a frame that follows its first blank line
AfterBlankLine(f) ==
    IF BlankLineAt(f) = 0 THEN <<>>
    ELSE SubSeq(f, BlankLineAt(f) + 4, Len(f))

\* a byte string with every CR LF pair taken out
RECURSIVE WithoutCrLf(_)
WithoutCrLf(b) ==
    IF Len(b) < 2 THEN b
    ELSE IF SubSeq(b, 1, 2) = CRLF THEN WithoutCrLf(SubSeq(b, 3, Len(b)))
    ELSE <<Head(b)>> \o WithoutCrLf(Tail(b))

\* the value of the last Content-Length header of a header list, 0 if none
RECURSIVE DeclaredLength(_)
DeclaredLength(hs) ==
    IF hs = <<>> THEN 0
    ELSE IF hs[Len(hs)].name = ContentLengthName
         THEN ParseUsize(hs[Len(hs)].value)
         ELSE DeclaredLength(SubSeq(hs, 1, Len(hs) - 1))

HasContentLength(hs) == \E k \in DOMAIN hs : hs[k].name = ContentLengthName

\* C3: the completion handler registered by one HTTP send is invoked at
\* most once, whatever frames arrive after the response is complete.
C3_HandlerInvokedAtMostOnce ==
    protocol = "http" =>
        \A n \in 1..nsends : Cardinality(CallsOf(n)) <= 1

\* C4: when the first frame holds the status line and the whole header
\* block, the delivered body is every byte after the first frame's blank
\* line followed by every byte of each later frame, in arrival order.
C4_BodyIsConcatenation ==
    protocol = "http" =>
        \A i \in DOMAIN calls :
            LET l == ListenerOf(calls[i].cb)
            IN  BlankLineAt(inbox[l.first]) # 0 =>
                   calls[i].response.body =
                       Some(AfterBlankLine(inbox[l.first])
                            \o RawBytes(l.first + 1, calls[i].frame))

\* C5: the completion handler is never invoked while the accumulated body
\* is shorter than the length declared by the first frame's Content-Length.
C5_NeverInvokedBelowExpected ==
    protocol = "http" =>
        \A i \in DOMAIN calls :
            /\ calls[i].expected =
                   DeclaredLength(ListenerOf(calls[i].cb).response_headers)
            /\ Len(calls[i].response.body[1]) >= calls[i].expected

\* a response of declared length 5 delivered once the fifth byte arrived
C5_Witness ==
    /\ protocol = "http"
    /\ \E i \in DOMAIN calls :
          /\ calls[i].expected = 5
          /\ Len(calls[i].response.body[1]) = 5
          /\ calls[i].frame > ListenerOf(calls[i].cb).first

\* C6: once the earlier responses have completed and a further send was
\* made, a frame is accumulated only by the latest send's accumulator and
\* reported only to its handler.
C6_OnlyLatestAccumulatorLive ==
    [][(/\ protocol = "http"
        /\ Len(listeners) >= 2
        /\ \A k \in 1..(Len(listeners) - 1) : CallsOf(listeners[k].id) # {}
        /\ inbox' # inbox) =>
          /\ \A k \in 1..(Len(listeners) - 1) : listeners'[k] = listeners[k]
          /\ \A i \in (Len(calls) + 1)..Len(calls') : calls'[i].cb = nsends
      ]_vars

\* C7: once close() has been called, no callback registered by a send on
\* the connection is invoked any more.
C7_NoCallbackAfterClose ==
    [][close_called => calls' = calls]_vars

\* close() was called while a response was partly accumulated
C7_Witness ==
    /\ close_called
    /\ protocol = "http"
    /\ \E k \in DOMAIN listeners :
          /\ listeners[k].response_code # 0
          /\ Len(listeners[k].response_body) < listeners[k].content_length
          /\ CallsOf(listeners[k].id) = {}

\* C8: while the socket is not open no handler is registered and no frame
\* is transmitted, and a send returns the error and changes nothing else.
C8_SendOnNotOpenFails ==
    [][ready_state # 1 =>
          /\ listeners' = listeners
          /\ outbox' = outbox
          /\ nsends' = nsends
          /\ (HttpSend \/ TcpSend \/ HttpsSend) =>
                 /\ result' = NotOpenError
                 /\ ready_state' = ready_state
                 /\ calls' = calls
      ]_vars

\* a send that failed on a closing socket, after one that succeeded
C8_Witness ==
    /\ result = NotOpenError
    /\ ready_state = 2
    /\ nsends = 1
    /\ Len(listeners) = 1
    /\ Len(outbox) = 1

\* the response that WholeStream carries
WholeResponse ==
    [code    |-> 200,
     headers |-> <<[name |-> ContentLengthName, value |-> <<"2">>]>>,
     body    |-> Some(<<"a", "b">>)]

\* C9: once the whole stream has arrived, the handler of a send made before
\* the first frame has been given the stream's response, once, however the
\* stream was cut into frames.
C9_SameResponseForEveryCut ==
    (pending = <<>> /\ nsends >= 1 /\ listeners[1].since = 0) =>
        /\ Cardinality(CallsOf(1)) = 1
        /\ \A i \in CallsOf(1) : calls[i].response = WholeResponse

\* the HTTP listeners whose first frame was parsed to the end and carried
\* no Content-Length header
ParsedWithoutLength ==
    {k \in DOMAIN listeners :
        /\ listeners[k].kind = "http"
        /\ listeners[k].first # 0
        /\ ~listeners[k].locked
        /\ ~HasContentLength(listeners[k].response_headers)}

----------------------------------------------------------------------------
(* Capability codecs: wire code (id.rs) and string identifier (lib.rs).   *)
(* A string is the sequence of its characters.                            *)

Panic == <<"panic">>

\* every unknown code decodes to TCP
U8ToCapability_DefaultTcp(value) ==
    CASE value = 10 -> <<"HTTP">>
      [] value = 20 -> <<"HTTPS", "TLSv1_0">>
      [] value = 21 -> <<"HTTPS", "TLSv1_1">>
      [] value = 22 -> <<"HTTPS", "TLSv1_2">>
      [] value = 23 -> <<"HTTPS", "TLSv1_3">>
      [] OTHER      -> <<"TCP">>

\* impl From<u8> for SocketCapability; the last arm panics
U8ToCapability(value) ==
    CASE value = 0  -> <<"TCP">>
      [] value = 10 -> <<"HTTP">>
      [] value = 20 -> <<"HTTPS", "TLSv1_0">>
      [] value = 21 -> <<"HTTPS", "TLSv1_1">>
      [] value = 22 -> <<"HTTPS", "TLSv1_2">>
      [] value = 23 -> <<"HTTPS", "TLSv1_3">>
      [] OTHER      -> Panic

Name_tcp          == <<"t", "c", "p">>
Name_http         == <<"h", "t", "t", "p">>
Name_https_tls1_0 == <<"h", "t", "t", "p", "s", "_", "t", "l", "s", "1", "_", "0">>
Name_https_tls1_1 == <<"h", "t", "t", "p", "s", "_", "t", "l", "s", "1", "_", "1">>
Name_https_tls1_2 == <<"h", "t", "t", "p", "s", "_", "t", "l", "s", "1", "_", "2">>
Name_https_tls1_3 == <<"h", "t", "t", "p", "s", "_", "t", "l", "s", "1", "_", "3">>

\* the six identifiers of to_string
CanonicalNames ==
    {Name_tcp, Name_http, Name_https_tls1_0, Name_https_tls1_1,
     Name_https_tls1_2, Name_https_tls1_3}

UpperLetters ==
    <<"A", "B", "C", "D", "E", "F", "G", "H", "I", "J", "K", "L", "M",
      "N", "O", "P", "Q", "R", "S", "T", "U", "V", "W", "X", "Y", "Z">>

LowerLetters ==
    <<"a", "b", "c", "d", "e", "f", "g", "h", "i", "j", "k", "l", "m",
      "n", "o", "p", "q", "r", "s", "t", "u", "v", "w", "x", "y", "z">>

\* char::to_lowercase on the characters of the model (ASCII)
LowerChar(ch) ==
    IF \E i \in 1..Len(UpperLetters) : UpperLetters[i] = ch
    THEN LowerLetters[CHOOSE i \in 1..Len(UpperLetters) : UpperLetters[i] = ch]
    ELSE ch

\* the string is handed on as it was written
ToLowercase_Unchanged(s) == s

\* str::to_lowercase
ToLowercase(s) == [i \in 1..Len(s) |-> LowerChar(s[i])]

\* the match lowercases its argument first
from_string_AnyCase(s) ==
    CASE ToLowercase(s) = Name_tcp          -> Some(<<"TCP">>)
      [] ToLowercase(s) = Name_http         -> Some(<<"HTTP">>)
      [] ToLowercase(s) = Name_https_tls1_0 -> Some(<<"HTTPS", "TLSv1_0">>)
      [] ToLowercase(s) = Name_https_tls1_1 -> Some(<<"HTTPS", "TLSv1_1">>)
      [] ToLowercase(s) = Name_https_tls1_2 -> Some(<<"HTTPS", "TLSv1_2">>)
      [] ToLowercase(s) = Name_https_tls1_3 -> Some(<<"HTTPS", "TLSv1_3">>)
      [] OTHER                              -> None

\* SocketCapability::from_string: an exact match on the six identifiers
from_string(s) ==
    CASE s = Name_tcp          -> Some(<<"TCP">>)
      [] s = Name_http         -> Some(<<"HTTP">>)
      [] s = Name_https_tls1_0 -> Some(<<"HTTPS", "TLSv1_0">>)
      [] s = Name_https_tls1_1 -> Some(<<"HTTPS", "TLSv1_1">>)
      [] s = Name_https_tls1_2 -> Some(<<"HTTPS", "TLSv1_2">>)
      [] s = Name_https_tls1_3 -> Some(<<"HTTPS", "TLSv1_3">>)
      [] OTHER                 -> None

\* SocketCapability::to_string
to_string(c) ==
    CASE c = <<"TCP">>              -> Name_tcp
      [] c = <<"HTTP">>             -> Name_http
      [] c = <<"HTTPS", "TLSv1_0">> -> Name_https_tls1_0
      [] c = <<"HTTPS", "TLSv1_1">> -> Name_https_tls1_1
      [] c = <<"HTTPS", "TLSv1_2">> -> Name_https_tls1_2
      [] c = <<"HTTPS", "TLSv1_3">> -> Name_https_tls1_3

\* get_capabilities() of lib.rs: what this build declares supported
get_capabilities == <<<<"TCP">>, <<"HTTP">>, <<"HTTPS", "TLSv1_2">>>>

\* Client::new_with_capabilities: the capabilities field it builds,
\* filter_map over the names of from_string(name.to_lowercase())
RECURSIVE new_with_capabilities(_)
new_with_capabilities(capabilities) ==
    IF capabilities = <<>> THEN <<>>
    ELSE from_string(ToLowercase(Head(capabilities)))
             \o new_with_capabilities(Tail(capabilities))

\* Client::get_capabilities: the names of the capabilities field
Client_get_capabilities(caps) == [i \in 1..Len(caps) |-> to_string(caps[i])]

----------------------------------------------------------------------------
(* SocketAddr::split_addr: connection.rs *)

SchemeSep == <<":", "/", "/">>

\* str::contains
Contains(s, pat) ==
    \E i \in 1..(Len(s) - Len(pat) + 1) : SubSeq(s, i, i + Len(pat) - 1) = pat

\* str::replace(ch, ""): every occurrence of ch is removed
Remove(s, ch) == SelectSeq(s, LAMBDA c : c # ch)

\* the match of lines 41-45
DefaultPort(proto) ==
    CASE proto = <<"TCP">>  -> <<"0">>
      [] proto = <<"HTTP">> -> <<"8", "0">>
      [] OTHER                 -> <<"4", "4", "3">>

\* two slashes are taken for a scheme separator
HasScheme_DoubleSlash(addr) == Contains(addr, <<"/", "/">>)

\* addr.contains("://") of line 35
HasScheme(addr) == Contains(addr, SchemeSep)

\* SocketAddr::split_addr(protocol, addr) -> Option<String>
split_addr(proto, addr) ==
    IF ~HasScheme(addr) THEN Some(addr)
    ELSE LET split == Skip1(Split(addr, SchemeSep))
         IN  IF split = <<>> THEN None
             ELSE LET rest  == Remove(Head(split), "/")
                      parts == Split(rest, <<":">>)
                  IN  IF parts = <<>> THEN None
                      ELSE LET port == IF Len(parts) >= 2 THEN parts[2]
                                       ELSE DefaultPort(proto)
                           IN  Some(parts[1] \o <<":">> \o port)

----------------------------------------------------------------------------
(* Calls of the codecs, of the Client's capability lookups and of          *)
(* split_addr, each applied to an argument drawn from a bounded set or to  *)
(* the value the call before it returned.                                  *)

\* the largest millisecond timestamp of a ConnId handed to the codec
MaxTimeMs == 2
\* how many calls are chained on one argument
MaxCalls == 2
\* the longest string over NameAlphabet handed to from_string
MaxNameLen == 3
\* the longest capability list handed to Client::new_with_capabilities
MaxCapabilities == 2
\* of how many tokens, at most, an address string is made
MaxAddrTokens == 5
\* the longest header list of a request handed to the serializer
MaxHeaders == 2
\* the longest enumerated body of such a request
MaxBodyLen == 2

\* API objects obtained for one connection
MaxApis == 3

RECURSIVE StringsOver(_, _)
\* the strings made of at most n pieces of the set tokens
StringsOver(tokens, n) ==
    IF n = 0 THEN {<<>>}
    ELSE {<<>>} \cup {t \o s : t \in tokens, s \in StringsOver(tokens, n - 1)}

NameAlphabet == {"t", "c", "p", "T", "C", "P"}

\* identifiers in other letter cases, and names of no capability
ListedNames ==
    CanonicalNames \cup
    {<<"T", "C", "P">>, <<"H", "T", "T", "P">>, <<"H", "t", "t", "p">>,
     <<"H", "t", "t", "p", "s", "_", "T", "L", "S", "1", "_", "2">>,
     <<"H", "T", "T", "P", "S", "_", "T", "L", "S", "1", "_", "3">>,
     <<>>, <<"u", "d", "p">>, <<"h", "t", "t", "p", "s">>,
     <<"t", "c", "p", " ">>,
     <<"h", "t", "t", "p", "s", "_", "t", "l", "s", "1", "_", "4">>}

NameStrings ==
    ListedNames \cup StringsOver({<<ch>> : ch \in NameAlphabet}, MaxNameLen)

AddrTokens == {<<"h">>, <<"8">>, <<":">>, <<"/">>, SchemeSep}

AddrStrings == StringsOver(AddrTokens, MaxAddrTokens)

\* the headers a request is built from: two names, one of them twice with
\* different values, and a value with ": " inside
RequestHeaders ==
    {[name |-> <<"H", "o", "s", "t">>, value |-> <<"a">>],
     [name |-> <<"H", "o", "s", "t">>, value |-> <<"b">>],
     [name |-> <<"X">>, value |-> <<"a", ":", " ", "b">>]}

\* a body of twelve bytes, for a Content-Length of two digits
TwelveBytes == [i \in 1..12 |-> "z"]

\* the bodies: every byte string over a letter and the byte 0xFF up to
\* MaxBodyLen, and the twelve bytes
RequestBodies ==
    StringsOver({<<"h">>, <<"xFF">>}, MaxBodyLen) \cup {TwelveBytes}

\* HttpConnectionRequest: method, path, headers, body: Option<Vec<u8>>
HttpRequests ==
    [method  : {<<"G", "E", "T">>, <<"P", "O", "S", "T">>},
     path    : {<<"/", "x">>},
     headers : UNION {[1..n -> RequestHeaders] : n \in 0..MaxHeaders},
     body    : {None} \cup {Some(b) : b \in RequestBodies}]

\* the value the next call applies to: the argument, or the latest result
Last ==
    IF steps = <<>> THEN input
    ELSE [kind |-> steps[Len(steps)].kind, val |-> steps[Len(steps)].ret]

\* one more call, which returned ret of kind kind
Called(fn, kind, ret) ==
    /\ Len(steps) < MaxCalls
    /\ steps' = Append(steps, [fn |-> fn, kind |-> kind, ret |-> ret])
    /\ UNCHANGED <<input, connvars, lockvars, apivars>>

\* Into::<u64>::into(id)
ConnIdIntoU64 ==
    /\ Last.kind = "ConnId"
    /\ Called("ConnId::into", "u64", Pack(Last.val))
    /\ UNCHANGED idvars

\* ConnId::from(value)
ConnIdFromU64Call ==
    /\ Last.kind = "u64"
    /\ Called("ConnId::from", "ConnId", ConnIdFromU64(Last.val))
    /\ UNCHANGED idvars

\* Into::<u8>::into(capability)
CapabilityIntoU8 ==
    /\ Last.kind = "SocketCapability"
    /\ Called("SocketCapability::into", "u8", CapabilityToU8(Last.val))
    /\ UNCHANGED idvars

\* SocketCapability::from(code): a capability, or the panic of line 87
CapabilityFromU8 ==
    /\ Last.kind = "u8"
    /\ LET c == U8ToCapability(Last.val)
       IN  Called("SocketCapability::from",
                  IF c = Panic THEN "panic" ELSE "SocketCapability", c)
    /\ UNCHANGED idvars

\* capability.to_string()
CapabilityToString ==
    /\ Last.kind = "SocketCapability"
    /\ Called("to_string", "str", to_string(Last.val))
    /\ UNCHANGED idvars

\* SocketCapability::from_string(s)
CapabilityFromString ==
    /\ Last.kind = "str"
    /\ Called("from_string", "Option", from_string(Last.val))
    /\ UNCHANGED idvars

\* Client::new_with_capabilities(addr, capabilities): the client's
\* capabilities field
NewWithCapabilities ==
    /\ Last.kind = "names"
    /\ Called("new_with_capabilities", "Client",
              new_with_capabilities(Last.val))
    /\ UNCHANGED idvars

\* client.get_capabilities()
ClientGetCapabilities ==
    /\ Last.kind = "Client"
    /\ Called("get_capabilities", "names", Client_get_capabilities(Last.val))
    /\ UNCHANGED idvars

\* Client::generate_id(conn_type): the unwrap of line 146 panics on an
\* unknown name, otherwise the factory generates and the id is packed
GenerateId ==
    /\ Last.kind = "conn_type"
    /\ LET c == from_string(ToLowercase(Last.val))
       IN  IF c = None
           THEN /\ Called("generate_id", "panic", Panic)
                /\ UNCHANGED idvars
           ELSE /\ \E drift \in 0..MaxDrift : generate(c[1], drift)
                /\ prev_id' = last_id
                /\ Called("generate_id", "u64", Pack(last_id'))

\* SocketAddr::split_addr(protocol, addr)
SplitAddr ==
    /\ Last.kind = "addr"
    /\ Called("split_addr", "Option",
              split_addr(Last.val.protocol, Last.val.addr))
    /\ UNCHANGED idvars

\* the http! macro as HttpConnectionApi::send expands it (http.rs:182-186)
Serialize ==
    /\ Last.kind = "request"
    /\ Called("http!", "bytes",
              http(Last.val.method, Last.val.path, Last.val.headers,
                   Last.val.body))
    /\ UNCHANGED idvars

\* a factory that has issued any number of ids in the current millisecond
FactoryBusy ==
    /\ now \in 0..MaxClock
    /\ last_time = now
    /\ incr \in 0..U8Max
    /\ last_id = NoId
    /\ prev_id = NoId

CallInit ==
    /\ ConnIdle
    /\ LockIdle
    /\ steps = <<>>
    /\ \/ /\ input \in [kind : {"ConnId"},
                        val  : [time      : 0..MaxTimeMs,
                                conn_type : {CapabilityToU8(c) :
                                                c \in SocketCapability},
                                incr      : 0..U8Max]]
          /\ IdIdle
       \/ /\ input \in [kind : {"SocketCapability"}, val : SocketCapability]
          /\ IdIdle
       \/ /\ input \in [kind : {"u8"}, val : 0..U8Max]
          /\ IdIdle
       \/ /\ input \in [kind : {"str"}, val : NameStrings]
          /\ IdIdle
       \/ /\ input \in [kind : {"names"},
                        val  : UNION {[1..n -> ListedNames] :
                                         n \in 0..MaxCapabilities}]
          /\ IdIdle
       \/ /\ input \in [kind : {"conn_type"}, val : ListedNames]
          /\ FactoryBusy
       \/ /\ input \in [kind : {"addr"},
                        val  : [protocol : SocketCapability,
                                addr     : AddrStrings]]
          /\ IdIdle
       \/ /\ input \in [kind : {"request"}, val : HttpRequests]
          /\ IdIdle

CallNext ==
    \/ ConnIdIntoU64
    \/ ConnIdFromU64Call
    \/ CapabilityIntoU8
    \/ CapabilityFromU8
    \/ CapabilityToString
    \/ CapabilityFromString
    \/ NewWithCapabilities
    \/ ClientGetCapabilities
    \/ GenerateId
    \/ SplitAddr
    \/ Serialize

CallSpec == CallInit /\ [][CallNext]_vars

----------------------------------------------------------------------------
(* Claims about the codecs and the resolvers *)

\* the n-th call of the chain was fn
CallIs(n, fn) == Len(steps) >= n /\ steps[n].fn = fn

\* C11: packing a ConnId (any time of the model, the code of any declared
\* capability, any counter 0..255) into a u64 and decoding that u64 gives
\* back the same (time, conn_type, incr) triple.
C11_DecodePackedIsSame ==
    (input.kind = "ConnId" /\ CallIs(1, "ConnId::into")
                           /\ CallIs(2, "ConnId::from"))
        => steps[2].ret = input.val

\* an id with a non-zero time, the largest code and a saturated counter has
\* been packed and decoded
C11_Witness ==
    /\ input.kind = "ConnId"
    /\ CallIs(1, "ConnId::into")
    /\ CallIs(2, "ConnId::from")
    /\ input.val.time > 0
    /\ input.val.conn_type = CapabilityToU8(<<"HTTPS", "TLSv1_3">>)
    /\ input.val.incr = U8Max

\* the capability that generate_id resolved its argument to
GeneratedFor == from_string(ToLowercase(input.val))[1]

\* C12: the packed id returned by generate(capability) is
\* time_ms * 2^16 + wire_code(capability) * 2^8 + counter: the timestamp is
\* in bits 63..16, the wire code of the capability passed to generate in
\* bits 15..8 and the counter in bits 7..0, no field running into another.
C12_PackedIsSumOfShiftedFields ==
    (input.kind = "conn_type" /\ CallIs(1, "generate_id")
                              /\ steps[1].kind = "u64")
        => LET packed == steps[1].ret
               time_ms == EpochMillis(last_time)
               code    == CapabilityToU8(GeneratedFor)
           IN  /\ packed = time_ms * 65536 + code * 256 + incr
               /\ packed \div 65536 = time_ms
               /\ (packed \div 256) % 256 = code
               /\ packed % 256 = incr

\* generate returned an id with a non-zero timestamp, the largest wire code
\* and the largest counter
C12_Witness ==
    /\ input.kind = "conn_type"
    /\ CallIs(1, "generate_id")
    /\ steps[1].kind = "u64"
    /\ EpochMillis(last_time) > 0
    /\ GeneratedFor = <<"HTTPS", "TLSv1_3">>
    /\ incr = U8Max

\* the wire codes as the data model lists them
DeclaredCode ==
    (<<"TCP">> :> 0) @@ (<<"HTTP">> :> 10)
      @@ (<<"HTTPS", "TLSv1_0">> :> 20) @@ (<<"HTTPS", "TLSv1_1">> :> 21)
      @@ (<<"HTTPS", "TLSv1_2">> :> 22) @@ (<<"HTTPS", "TLSv1_3">> :> 23)

\* C13: the capability-to-wire-code mapping is Tcp=0, Http=10,
\* Https(1.0..1.3)=20..23, no two capabilities share a code, decoding the
\* code of a capability gives that capability, and encoding the capability
\* decoded from one of the six codes gives that code.
C13_WireCodeRoundTrip ==
    /\ (input.kind = "SocketCapability" /\ CallIs(1, "SocketCapability::into"))
           => /\ steps[1].ret = DeclaredCode[input.val]
              /\ \A c \in SocketCapability :
                     CapabilityToU8(c) = steps[1].ret => c = input.val
              /\ CallIs(2, "SocketCapability::from")
                     => steps[2].ret = input.val
    /\ (input.kind = "u8" /\ CallIs(1, "SocketCapability::from")
                          /\ CallIs(2, "SocketCapability::into"))
           => steps[2].ret = input.val
    /\ (input.kind = "u8" /\ CallIs(1, "SocketCapability::from")
                          /\ input.val \in {0, 10, 20, 21, 22, 23})
           => steps[1].kind = "SocketCapability"

\* HTTPS over TLS 1.3 has been encoded and the code decoded
C13_Witness ==
    /\ input.kind = "SocketCapability"
    /\ input.val = <<"HTTPS", "TLSv1_3">>
    /\ CallIs(1, "SocketCapability::into")
    /\ CallIs(2, "SocketCapability::from")

\* C14: decoding a wire code outside {0, 10, 20, 21, 22, 23} panics, for
\* every such u8; no capability comes out of it.
C14_UnknownCodePanics ==
    (input.kind = "u8" /\ CallIs(1, "SocketCapability::from")
                       /\ input.val \notin {0, 10, 20, 21, 22, 23})
        => /\ steps[1].kind = "panic"
           /\ steps[1].ret \notin SocketCapability

\* the largest u8 has been decoded
C14_Witness ==
    /\ input.kind = "u8"
    /\ input.val = U8Max
    /\ CallIs(1, "SocketCapability::from")

\* C15: from_string(to_string(c)) is Some(c) for each of the six
\* capabilities, and from_string of any string that is not one of the six
\* canonical identifiers is None.
C15_StringRoundTripAndUnknownIsNone ==
    /\ (input.kind = "SocketCapability" /\ CallIs(1, "to_string")
                                        /\ CallIs(2, "from_string"))
           => steps[2].ret = Some(input.val)
    /\ (input.kind = "str" /\ CallIs(1, "from_string")
                           /\ input.val \notin CanonicalNames)
           => steps[1].ret = None

\* HTTPS over TLS 1.2 has been turned into its name and the name looked up
C15_Witness ==
    /\ input.kind = "SocketCapability"
    /\ input.val = <<"HTTPS", "TLSv1_2">>
    /\ CallIs(1, "to_string")
    /\ CallIs(2, "from_string")

\* a and b are the same string up to the case of their ASCII letters
SameIgnoringCase(a, b) ==
    /\ Len(a) = Len(b)
    /\ \A i \in 1..Len(a) :
           \/ a[i] = b[i]
           \/ \E k \in 1..Len(UpperLetters) :
                  {a[i], b[i]} = {UpperLetters[k], LowerLetters[k]}

\* the capability whose canonical identifier is s in some letter case
ResolveAnyCase(s) ==
    IF \E n \in CanonicalNames : SameIgnoringCase(s, n)
    THEN from_string(CHOOSE n \in CanonicalNames : SameIgnoringCase(s, n))
    ELSE None

RECURSIVE ResolveAllAnyCase(_)
ResolveAllAnyCase(names) ==
    IF names = <<>> THEN <<>>
    ELSE ResolveAnyCase(Head(names)) \o ResolveAllAnyCase(Tail(names))

\* what the Client's two lookups do with a name in any letter case, and the
\* names the code produces
ClientLookupsIgnoreCase ==
    /\ (input.kind = "names" /\ CallIs(1, "new_with_capabilities"))
           => steps[1].ret = ResolveAllAnyCase(input.val)
    /\ (input.kind = "conn_type" /\ CallIs(1, "generate_id"))
           => IF ResolveAnyCase(input.val) = None
              THEN steps[1].kind = "panic"
              ELSE /\ steps[1].kind = "u64"
                   /\ last_id.conn_type
                          = CapabilityToU8(ResolveAnyCase(input.val)[1])
    /\ \A n \in 1..Len(steps) :
           /\ steps[n].fn = "to_string" => steps[n].ret \in CanonicalNames
           /\ steps[n].fn = "get_capabilities"
                  => \A i \in 1..Len(steps[n].ret) :
                         steps[n].ret[i] \in CanonicalNames

\* C16 (as stated): a canonical identifier in any letter case resolves to
\* the same capability as its lowercase form on every lookup path:
\* SocketCapability::from_string, Client::new_with_capabilities and
\* Client::generate_id; the string produced for a capability is the
\* canonical lowercase one.
C16_LookupIgnoresCaseOnEveryPath ==
    /\ ClientLookupsIgnoreCase
    /\ (input.kind = "str" /\ CallIs(1, "from_string"))
           => steps[1].ret = ResolveAnyCase(input.val)

\* C16 (amended): the two lookups of the Client ignore the letter case of
\* the name and the string produced for a capability is the canonical
\* lowercase one, while SocketCapability::from_string itself resolves a
\* name only when it is written exactly in the canonical lowercase form.
C16_ClientIgnoresCaseFromStringIsExact ==
    /\ ClientLookupsIgnoreCase
    /\ (input.kind = "str" /\ CallIs(1, "from_string"))
           => steps[1].ret = IF input.val \in CanonicalNames
                             THEN ResolveAnyCase(input.val)
                             ELSE None

\* a client has been built from a list that names HTTPS over TLS 1.2 in
\* mixed case, and holds that capability
C16_Witness ==
    /\ input.kind = "names"
    /\ CallIs(1, "new_with_capabilities")
    /\ \E i \in 1..Len(input.val) :
           /\ input.val[i] \notin CanonicalNames
           /\ ResolveAnyCase(input.val[i]) = Some(<<"HTTPS", "TLSv1_2">>)
    /\ \E i \in 1..Len(steps[1].ret) : steps[1].ret[i] = <<"HTTPS", "TLSv1_2">>

\* the elements of a sequence
Range(s) == {s[i] : i \in 1..Len(s)}

\* C17: a client constructed from a list of capability names holds exactly
\* the listed capabilities that the build declares supported
\* (get_capabilities: tcp, http, https_tls1_2): what it holds is a subset
\* of the declared set, and unknown names are dropped.
C17_HoldsListedDeclaredOnly ==
    (input.kind = "names" /\ CallIs(1, "new_with_capabilities"))
        => /\ Range(steps[1].ret) \subseteq Range(get_capabilities)
           /\ Range(steps[1].ret)
                  = Range(ResolveAllAnyCase(input.val))
                        \cap Range(get_capabilities)

\* split_addr has been applied to the address of the chain
SplitDone == input.kind = "addr" /\ CallIs(1, "split_addr")

\* C18: for every capability and every input string that does not contain
\* "://", split_addr returns Some of the input unchanged: no port added, no
\* slash removed.
C18_NoSchemeReturnedVerbatim ==
    (SplitDone /\ ~Contains(input.val.addr, SchemeSep))
        => steps[1].ret = Some(input.val.addr)

\* split_addr has been given an address without scheme that has slashes,
\* two of them in a row, and no port
C18_Witness ==
    /\ SplitDone
    /\ ~Contains(input.val.addr, SchemeSep)
    /\ Contains(input.val.addr, <<"/", "/">>)
    /\ ~Contains(input.val.addr, <<":">>)
    /\ input.val.protocol = <<"HTTP">>

\* the part of addr after its first "://"
AfterScheme(addr) ==
    LET at(i) == SubSeq(addr, i, i + Len(SchemeSep) - 1) = SchemeSep
        first == CHOOSE i \in 1..Len(addr) :
                     at(i) /\ \A j \in 1..(i - 1) : ~at(j)
    IN  SubSeq(addr, first + Len(SchemeSep), Len(addr))

\* the longest prefix of s that has none of the characters stops
UpTo(s, stops) ==
    LET n == CHOOSE n \in 0..Len(s) :
                 /\ \A i \in 1..n : s[i] \notin stops
                 /\ n < Len(s) => s[n + 1] \in stops
    IN  SubSeq(s, 1, n)

\* the host of a URL: what follows the scheme, up to the port or the path
HostOf(addr) == UpTo(AfterScheme(addr), {":", "/"})

\* what follows the host: <<>>, or ":" and a port, and then maybe a path
AfterHost(addr) ==
    SubSeq(AfterScheme(addr), Len(HostOf(addr)) + 1, Len(AfterScheme(addr)))

HasPort(addr) == AfterHost(addr) # <<>> /\ Head(AfterHost(addr)) = ":"

\* the port segment of a URL that has one
PortOf(addr) == UpTo(Tail(AfterHost(addr)), {":", "/"})

\* scheme://host or scheme://host:port, maybe followed by a path, with a
\* scheme, a host, and no further colon
IsPlainUrl(addr) ==
    /\ Contains(addr, SchemeSep)
    /\ LET scheme == Head(Split(addr, SchemeSep))
       IN  scheme # <<>> /\ \A i \in 1..Len(scheme) : scheme[i] \notin {":", "/"}
    /\ HostOf(addr) # <<>>
    /\ LET path == IF HasPort(addr)
                   THEN SubSeq(AfterHost(addr), Len(PortOf(addr)) + 2,
                               Len(AfterHost(addr)))
                   ELSE AfterHost(addr)
       IN  /\ HasPort(addr) => PortOf(addr) # <<>>
           /\ ~Contains(path, <<":">>)

\* C19: for an input with a scheme, split_addr returns host:port, the port
\* being the one of the input when it has a port segment and otherwise the
\* default of the capability (0 TCP, 80 HTTP, 443 HTTPS); neither the
\* scheme nor a trailing slash is in the result.
C19_SchemeInputGivesHostAndPort ==
    (SplitDone /\ IsPlainUrl(input.val.addr))
        => LET addr == input.val.addr
               port == IF HasPort(addr) THEN PortOf(addr)
                       ELSE CASE input.val.protocol = <<"TCP">>  -> <<"0">>
                              [] input.val.protocol = <<"HTTP">> -> <<"8", "0">>
                              [] OTHER -> <<"4", "4", "3">>
           IN  steps[1].ret = Some(HostOf(addr) \o <<":">> \o port)

\* C20: split_addr returns None when the input is empty after the scheme
\* separator (as in "http://"), not a partial result such as ":80", and it
\* returns None for no other input.
C20_NoneIffEmptyAfterScheme ==
    SplitDone
        => (steps[1].ret = None
                <=> /\ Contains(input.val.addr, SchemeSep)
                    /\ AfterScheme(input.val.addr) = <<>>)

----------------------------------------------------------------------------
(* Claims about request serialisation *)

\* a request has been serialised
Serialized == input.kind = "request" /\ CallIs(1, "http!")

\* the lines of the serialised request
OutLines == Split(steps[1].ret, CRLF)

\* s begins with p
StartsWith(s, p) == Len(s) >= Len(p) /\ SubSeq(s, 1, Len(p)) = p

ContentLengthPrefix == ContentLengthName \o ColonSpace

\* the text of a Content-Length line after "Content-Length: "
LengthText(line) ==
    SubSeq(line, Len(ContentLengthPrefix) + 1, Len(line))

\* C21: the output starts with the request line "{method} {path} HTTP/1.1",
\* followed by one "{name}: {value}" line per supplied header, in the
\* supplied order and with duplicates kept, before any Content-Length line
\* and the terminating blank line.
C21_RequestLineThenHeadersInOrder ==
    Serialized =>
        LET r == input.val
            n == Len(r.headers)
        IN  /\ Len(OutLines) >= n + 2
            /\ OutLines[1] = r.method \o <<" ">> \o r.path
                                 \o <<" ", "H", "T", "T", "P", "/", "1", ".", "1">>
            /\ \A i \in 1..n :
                   OutLines[i + 1] = r.headers[i].name \o <<":", " ">>
                                         \o r.headers[i].value
            /\ \/ OutLines[n + 2] = <<>>
               \/ /\ StartsWith(OutLines[n + 2], ContentLengthPrefix)
                  /\ Len(OutLines) >= n + 3
                  /\ OutLines[n + 3] = <<>>

\* a request with the same header name twice, with different values, has
\* been serialised
C21_Witness ==
    /\ Serialized
    /\ Len(input.val.headers) = 2
    /\ input.val.headers[1].name = input.val.headers[2].name
    /\ input.val.headers[1].value # input.val.headers[2].value

\* C22: a Content-Length line is appended if and only if a body is present:
\* with body = None the output has no Content-Length line and ends at the
\* blank line; with body = Some(empty) it has a "Content-Length: 0" line, so
\* the two outputs differ.
C22_ContentLengthIffBody ==
    Serialized =>
        LET r == input.val
            n == Len(r.headers)
        IN  /\ r.body = None =>
                   /\ \A i \in 1..Len(OutLines) :
                          ~StartsWith(OutLines[i], ContentLengthPrefix)
                   /\ Len(OutLines) = n + 3
                   /\ OutLines[n + 2] = <<>> /\ OutLines[n + 3] = <<>>
            /\ r.body # None =>
                   /\ StartsWith(OutLines[n + 2], ContentLengthPrefix)
                   /\ ParseUsize(LengthText(OutLines[n + 2])) = Len(r.body[1])
                   /\ Head(LengthText(OutLines[n + 2])) # "+"
            /\ r.body = Some(<<>>) =>
                   /\ OutLines[n + 2] = ContentLengthPrefix \o <<"0">>
                   /\ steps[1].ret # http(r.method, r.path, r.headers, None)

\* a request with an empty body has been serialised
C22_Witness == Serialized /\ input.val.body = Some(<<>>)

\* C23: when a body is present, the bytes after the blank line are exactly
\* the supplied body bytes, for every byte sequence, valid UTF-8 or not, and
\* the Content-Length value is the number of body bytes emitted.
C23_BodyEmittedVerbatim ==
    (Serialized /\ input.val.body # None) =>
        LET emitted == AfterBlankLine(steps[1].ret)
            n       == Len(input.val.headers)
        IN  /\ emitted = input.val.body[1]
            /\ ParseUsize(LengthText(OutLines[n + 2])) = Len(emitted)

----------------------------------------------------------------------------
(* An HTTPS connection whose far end answers with TLS records *)

\* the ciphertext of one answer, TlsMagicLen bytes in all, and its two parts
TlsHead  == [i \in 1..(TlsMagicLen - 1) |-> "a"]
TlsTail  == <<"b">>
TlsWhole == TlsHead \o TlsTail

\* the far end sends up to MaxFrames frames, each the whole ciphertext or
\* one of its parts
TlsScripts ==
    UNION {[1..n -> {TlsHead, TlsTail, TlsWhole}] : n \in 0..MaxFrames}

TlsInit ==
    /\ IdIdle
    /\ ConnNew
    /\ protocol = "https"
    /\ pending \in TlsScripts
    /\ CallIdle
    /\ LockIdle

TlsNext ==
    \/ Open /\ UNCHANGED <<idvars, callvars, lockvars, apivars>>
    \/ HttpsSend /\ UNCHANGED <<idvars, callvars, lockvars, apivars>>
    \/ DeliverNext /\ UNCHANGED <<idvars, callvars, lockvars, apivars>>

\* the browser's event loop runs every event that is due: the open event,
\* the application's sends and the message events of the received frames
TlsSpec == TlsInit /\ [][TlsNext]_vars /\ WF_vars(TlsNext)

\* the ciphertext accumulator of the n-th send has been handed to the TLS
\* state machine (read_tls, https.rs:243-247)
FedToTls(n) == Len(listeners) >= n /\ listeners[n].tls_read

\* C24: for an HTTPS send the inbound frames are accumulated in arrival
\* order, the accumulator is fed to the TLS state machine once the
\* ciphertext of complete records has arrived, and the plaintext goes on to
\* HTTP reassembly, so that the completion handler of the send is
\* eventually invoked.
C24_HttpsHandlerEventuallyInvoked ==
    \A n \in 1..MaxSends : FedToTls(n) ~> (CallsOf(n) # {})

----------------------------------------------------------------------------
(* Claims about counter saturation *)

\* C25: a generate call that follows an id with counter 255 within the same
\* millisecond blocks for 1 ms, resets the counter to 0 and returns an id
\* with a strictly greater timestamp: after an id with counter 255 the next
\* id has counter 0 and a later timestamp, so the counter never wraps from
\* 255 to 0 under an unchanged timestamp.
C25_SaturatedCounterWaitsForNextMs ==
    (TwoIds /\ prev_id.incr = U8Max)
        => /\ last_id.incr = 0
           /\ last_id.time > prev_id.time
           /\ incr = 0

\* generate has slept: the id after the one with counter 255 was issued no
\* later than the sleep requires, one millisecond on
C25_Witness ==
    /\ TwoIds
    /\ prev_id.incr = U8Max
    /\ last_id.incr = 0
    /\ last_id.time = prev_id.time + 1


(***************************************************************************)
(* The response parser of an HTTP send, frame by frame (ScriptSpec).       *)
(***************************************************************************)

\* the frame handled by the step, when the step delivers one
Delivered == inbox'[Len(inbox')]

\* the listeners of HTTP sends that have stored a status code
Started == {k \in DOMAIN listeners :
               listeners[k].kind = "http" /\ listeners[k].response_code # 0}

HeaderBlock(f) == TakeWhileNonEmpty(Tail(Split(f, CRLF)))

\* where the first ": " of a line starts
FirstSeparator(line) ==
    CHOOSE i \in 1..Len(line) :
        /\ SubSeq(line, i, i + 1) = ColonSpace
        /\ \A j \in 1..(i - 1) : SubSeq(line, j, j + 1) # ColonSpace

\* a header line cut at its first ": " only
CutAtFirstSeparator(line) ==
    [name  |-> SubSeq(line, 1, FirstSeparator(line) - 1),
     value |-> SubSeq(line, FirstSeparator(line) + 2, Len(line))]

\* the listeners of HTTP sends whose first frame was parsed to the end
Parsed == {k \in DOMAIN listeners :
              /\ listeners[k].kind = "http"
              /\ listeners[k].first # 0
              /\ ~listeners[k].locked}

\* C27: the headers stored for a response are its header lines in the
\* order received, duplicates kept, each cut at its first ": " only: the
\* name is the text before it, the value all the text after it, later
\* ": " included.
C27_HeaderValueIsAllRemainingText ==
    \A k \in Parsed :
        LET block == HeaderBlock(inbox[listeners[k].first])
        IN  listeners[k].response_headers =
                [j \in 1..Len(block) |-> CutAtFirstSeparator(block[j])]


\* the stored headers whose name is Content-Length in some other casing
OtherCasing(hs) ==
    {j \in DOMAIN hs :
        /\ hs[j].name # ContentLengthName
        /\ Len(hs[j].name) = Len(ContentLengthName)
        /\ \A i \in DOMAIN ContentLengthName :
              \/ hs[j].name[i] = ContentLengthName[i]
              \/ <<hs[j].name[i], ContentLengthName[i]>> \in {<<"c", "C">>, <<"l", "L">>}}

\* C28: the expected content length of a parsed response is the value of
\* its header named exactly "Content-Length", and 0 when it has none; a
\* header with the same name in another casing does not set it, and with
\* the length left at 0 the handler is invoked while the first frame is
\* handled.
C28_OnlyExactNameSetsLength ==
    \A k \in Parsed :
        LET l == listeners[k]
        IN  /\ l.content_length = DeclaredLength(l.response_headers)
            /\ ~HasContentLength(l.response_headers) =>
                  /\ l.content_length = 0
                  /\ \E i \in CallsOf(l.id) : calls[i].frame = l.first

\* a response that declares content-length: 5 in lower case and carries 3
\* body bytes was delivered on its first frame, expected length 0
C28_Witness ==
    \E k \in Parsed :
        LET l == listeners[k]
        IN  /\ OtherCasing(l.response_headers) # {}
            /\ l.content_length = 0
            /\ \E i \in CallsOf(l.id) :
                  /\ calls[i].frame = l.first
                  /\ calls[i].expected = 0
                  /\ calls[i].response.body = Some(<<"a", "b", "c">>)


\* first frames on which the handler aborts: a status token that is no
\* number, a header line without ": ", a Content-Length that is no number
MalformedFirst == {RespBadStatus, RespBadHeader, RespBadLength}

\* the listeners registered before any frame came in
EarlyHttp == {k \in DOMAIN listeners :
                 listeners[k].kind = "http" /\ listeners[k].since = 0}

\* C30: when the handling of a first frame aborts on malformed input, the
\* accumulator is as it was before the frame (status 0, no headers, empty
\* body, expected length 0, guards released) and the handler is not
\* invoked; a later frame is then still parsed as a first frame.
C30_AbortLeavesAccumulatorUntouched ==
    \A k \in EarlyHttp :
        LET l == listeners[k]
        IN  /\ (Len(inbox) = 1 /\ inbox[1] \in MalformedFirst) =>
                  /\ l.response_code = 0
                  /\ l.response_headers = <<>>
                  /\ l.response_body = <<>>
                  /\ l.content_length = 0
                  /\ ~l.locked
                  /\ CallsOf(l.id) = {}
            /\ (Len(inbox) = 2 /\ inbox[1] \in MalformedFirst
                               /\ inbox[2] = RespLen5_abc) =>
                  /\ l.response_code = 200
                  /\ l.first = 2
                  /\ l.content_length = 5


(***************************************************************************)
(* The four mutexes of one send's accumulator, one step per line group of  *)
(* the message callback (LockSpec).  Invocations of the callback are let   *)
(* overlap, so that it is the mutexes, not the event loop, that keep them  *)
(* apart.                                                                  *)
(***************************************************************************)

At(i, at) == handlers[i].at = at

Holds(i, m) == guards[m] = i

Goto(i, at, n) == handlers' = [handlers EXCEPT ![i] = [at |-> at, n |-> n]]

\* the outcomes of Mutex::lock on a mutex whose guard was leaked by an
\* invocation that threw: std leaves it open whether the call panics or
\* never returns
RelockOutcomes == {"thrown", "blocked"}

\* http.rs:172-290: the one send whose accumulator the invocations share
LockSend == nsends = 0 /\ HttpSend /\ UNCHANGED lockvars

\* http.rs:197-203: the socket dispatches the next frame to the callback
DispatchFrame ==
    /\ ready_state = 1
    /\ listeners # <<>>
    /\ pending # <<>>
    /\ inbox' = Append(inbox, Head(pending))
    /\ pending' = Tail(pending)
    /\ Goto(Len(inbox) + 1, "lock", 1)
    /\ UNCHANGED <<protocol, ready_state, listeners, outbox, calls, nsends,
                   result, close_called, guards>>

\* http.rs:204-207: lock() on the next mutex, which is free
Acquire(i) ==
    LET m == handlers[i].n
    IN  /\ At(i, "lock")
        /\ guards[m] = 0
        /\ guards' = [guards EXCEPT ![m] = i]
        /\ IF m = Len(LockOrder) THEN Goto(i, "parse", 0)
                                 ELSE Goto(i, "lock", m + 1)
        /\ UNCHANGED connvars

\* http.rs:204-207: lock() on a mutex whose guard was leaked
Relock(i) ==
    LET m == handlers[i].n
    IN  /\ At(i, "lock")
        /\ guards[m] # 0
        /\ At(guards[m], "thrown")
        /\ \E out \in RelockOutcomes : Goto(i, out, m)
        /\ UNCHANGED <<connvars, guards>>

\* http.rs:211-249: the frame is parsed or appended; an unwrap_throw leaves
\* the closure with the guards alive
Parse(i) ==
    LET r == HttpOnMessage(listeners[1], inbox[i], i)
    IN  /\ At(i, "parse")
        /\ listeners' = <<r.l>>
        /\ IF r.l.locked THEN Goto(i, "thrown", 0) ELSE Goto(i, "check", 0)
        /\ UNCHANGED <<protocol, ready_state, outbox, inbox, calls, nsends,
                       result, close_called, pending, guards>>

\* http.rs:251-263: the completion check and the callback
Check(i) ==
    LET r == Finish(listeners[1])
    IN  /\ At(i, "check")
        /\ calls' = calls \o
               [c \in 1..Len(r.call) |->
                   [cb |-> listeners[1].id, frame |-> i,
                    response |-> r.call[c],
                    expected |-> listeners[1].content_length]]
        /\ Goto(i, "drop", 1)
        /\ UNCHANGED <<protocol, ready_state, listeners, outbox, inbox,
                       nsends, result, close_called, pending, guards>>

\* http.rs:265-268: the guards are dropped in the order they were taken
Drop(i) ==
    LET m == handlers[i].n
    IN  /\ At(i, "drop")
        /\ guards' = [guards EXCEPT ![m] = 0]
        /\ IF m = Len(LockOrder) THEN Goto(i, "returned", 0)
                                 ELSE Goto(i, "drop", m + 1)
        /\ UNCHANGED connvars

LockInit ==
    /\ IdIdle
    /\ ConnNew
    /\ protocol = "http"
    /\ pending \in UNION {[1..n -> ScriptFrames] : n \in 0..MaxFrames}
    /\ CallIdle
    /\ LockIdle

LockNext ==
    \/ Open /\ UNCHANGED <<idvars, callvars, lockvars, apivars>>
    \/ LockSend /\ UNCHANGED <<idvars, callvars, apivars>>
    \/ DispatchFrame /\ UNCHANGED <<idvars, callvars, apivars>>
    \/ \E i \in 1..MaxFrames : Acquire(i) /\ UNCHANGED <<idvars, callvars, apivars>>
    \/ \E i \in 1..MaxFrames : Relock(i) /\ UNCHANGED <<idvars, callvars, apivars>>
    \/ \E i \in 1..MaxFrames : Parse(i) /\ UNCHANGED <<idvars, callvars, apivars>>
    \/ \E i \in 1..MaxFrames : Check(i) /\ UNCHANGED <<idvars, callvars, apivars>>
    \/ \E i \in 1..MaxFrames : Drop(i) /\ UNCHANGED <<idvars, callvars, apivars>>

LockSpec == LockInit /\ [][LockNext]_vars

\* the mutexes an invocation holds
HeldBy(i) == {m \in DOMAIN guards : Holds(i, m)}

\* an invocation that is taking the mutexes holds exactly those before the
\* one it is about to lock: every invocation locks in the one order
OrderedAcquisition ==
    \A i \in DOMAIN handlers :
        At(i, "lock") => HeldBy(i) = 1..(handlers[i].n - 1)

\* an invocation that reads or writes the accumulator, or makes the
\* completion check, holds all four mutexes, so no two do so at once
HeldAsAUnit ==
    \A i \in DOMAIN handlers :
        (At(i, "parse") \/ At(i, "check")) => HeldBy(i) = DOMAIN guards

NoInterleaving ==
    \A i, j \in DOMAIN handlers :
        ((At(i, "parse") \/ At(i, "check")) /\
         (At(j, "parse") \/ At(j, "check"))) => i = j

\* no invocation is left inside lock() for good
NoStuckAcquisition == \A i \in DOMAIN handlers : ~At(i, "blocked")

\* C29: the four fields are guarded as a unit: every invocation takes the
\* four mutexes in the same order before it reads a field and gives them
\* up only after its completion check, so no two invocations interleave,
\* and no invocation is ever stuck taking a mutex.
C29_GuardedAsAUnitWithoutDeadlock ==
    /\ OrderedAcquisition
    /\ HeldAsAUnit
    /\ NoInterleaving
    /\ NoStuckAcquisition


(***************************************************************************)
(* Several sends on one socket (Spec).                                     *)
(***************************************************************************)

\* send n was issued before any frame came in: its listener is still
\* registered from then, or it fired on the first frame
BeforeAnyFrame(n) ==
    \/ \E k \in DOMAIN listeners :
          listeners[k].id = n /\ listeners[k].since = 0
    \/ \E i \in CallsOf(n) : calls[i].frame = 1

\* the first n frames were all binary
BinaryUpTo(n) ==
    Len(inbox) >= n /\ \A j \in 1..n : inbox[j] # TextFrame

\* C31: on a TCP connection, for sends issued before any frame came in,
\* the k-th frame goes to the k-th send's callback and to no other, and
\* every callback is invoked at most once.
C31_FramesMatchSendsInOrder ==
    protocol = "tcp" =>
        \A n \in 1..nsends :
            BeforeAnyFrame(n) =>
                /\ \A i \in CallsOf(n) : calls[i].frame = n
                /\ Cardinality(CallsOf(n)) <= 1
                /\ BinaryUpTo(n) => CallsOf(n) # {}


(***************************************************************************)
(* A send call step by step: the listener and the request (OrderSpec).     *)
(* The call runs to its end before the socket dispatches another event.    *)
(***************************************************************************)

\* the request is handed to the socket before the listener is registered
SendSteps_TransmitFirst == <<"transmit", "register">>

\* http.rs:271-287, tcp.rs:115-129, https.rs:271-287: add_event_listener,
\* then send_with_u8_array
SendSteps == <<"register", "transmit">>

\* what a send of each wrapper hands to the socket
SentBytes(kind, data) ==
    IF kind = "http" THEN http(data.method, data.path, data.headers, data.body)
    ELSE IF kind = "tcp" THEN data.body[1]
    ELSE TlsFirstFlight

\* http.rs:177-181, tcp.rs:96-100, https.rs:194-198: the readyState check
\* that opens a send call
BeginSend ==
    /\ in_send = NoSend
    /\ \E data \in Requests :
          /\ protocol = "tcp" => data.body # None
          /\ IF ~IsOpen(ready_state)
             THEN /\ result' = NotOpenError
                  /\ UNCHANGED in_send
             ELSE /\ nsends < MaxSends
                  /\ in_send' = [step |-> 1, kind |-> protocol,
                                 bytes |-> SentBytes(protocol, data)]
                  /\ UNCHANGED result
    /\ UNCHANGED <<protocol, ready_state, listeners, outbox, inbox, calls,
                   nsends, close_called, pending, handles>>

\* the call moves past its current step, and returns Ok(()) after the last
Advance ==
    IF in_send.step = Len(SendSteps)
    THEN in_send' = NoSend /\ nsends' = nsends + 1 /\ result' = "ok"
    ELSE /\ in_send' = [in_send EXCEPT !.step = @ + 1]
         /\ UNCHANGED <<nsends, result>>

\* add_event_listener_with_callback_and_add_event_listener_options
Register ==
    /\ in_send # NoSend
    /\ SendSteps[in_send.step] = "register"
    /\ listeners' = Append(listeners,
                           NewListener(in_send.kind, nsends + 1, Len(inbox)))
    /\ Advance
    /\ UNCHANGED <<protocol, ready_state, outbox, inbox, calls, close_called,
                   pending, handles>>

\* send_with_u8_array
Transmit ==
    /\ in_send # NoSend
    /\ SendSteps[in_send.step] = "transmit"
    /\ outbox' = Append(outbox, in_send.bytes)
    /\ Advance
    /\ UNCHANGED <<protocol, ready_state, listeners, inbox, calls,
                   close_called, pending, handles>>

\* socket events come between calls, never inside one
BetweenCalls(event) == in_send = NoSend /\ event /\ UNCHANGED apivars

OrderInit ==
    /\ IdIdle
    /\ ConnNew
    /\ pending = <<>>
    /\ CallIdle
    /\ LockIdle

OrderNext ==
    \/ BetweenCalls(Open) /\ UNCHANGED <<idvars, callvars, lockvars>>
    \/ BetweenCalls(TransportClosed) /\ UNCHANGED <<idvars, callvars, lockvars>>
    \/ BetweenCalls(Deliver) /\ UNCHANGED <<idvars, callvars, lockvars>>
    \/ BeginSend /\ UNCHANGED <<idvars, callvars, lockvars>>
    \/ Register /\ UNCHANGED <<idvars, callvars, lockvars>>
    \/ Transmit /\ UNCHANGED <<idvars, callvars, lockvars>>

OrderSpec == OrderInit /\ [][OrderNext]_vars

\* the listener of send n is on the socket
Listening(n) == \E k \in DOMAIN listeners : listeners[k].id = n

ApiObjects == handles \ {0}

\* connection.rs:117-121: Drop for Connection calls socket.close(), for
\* whichever clone is dropped
drop(h) ==
    /\ h \in handles
    /\ handles' = handles \ {h}
    /\ ready_state' = ReadyAfterClose(ready_state)
    /\ UNCHANGED <<protocol, listeners, outbox, inbox, calls, nsends, result,
                   close_called, pending, in_send>>

\* client.rs:102-108: get_http_connection_api wraps a clone of the list
\* entry in a new API object
GetHttpConnectionApi ==
    /\ 0 \in handles
    /\ \E h \in 1..MaxApis :
          /\ h \notin handles
          /\ handles' = handles \cup {h}
    /\ UNCHANGED <<connvars, in_send>>

\* an API object is discarded
DiscardApi == \E h \in ApiObjects : drop(h)

\* the client is discarded, and its connection list with it
DiscardClient == drop(0)

\* a send through one of the live API objects
ApiSend == ApiObjects # {} /\ HttpSend /\ UNCHANGED apivars

HandleInit ==
    /\ IdIdle
    /\ ConnNew
    /\ protocol = "http"
    /\ pending = <<>>
    /\ CallIdle
    /\ LockIdle

HandleNext ==
    \/ Open /\ UNCHANGED <<idvars, callvars, lockvars, apivars>>
    \/ Deliver /\ UNCHANGED <<idvars, callvars, lockvars, apivars>>
    \/ ApiSend /\ UNCHANGED <<idvars, callvars, lockvars>>
    \/ GetHttpConnectionApi /\ UNCHANGED <<idvars, callvars, lockvars>>
    \/ DiscardApi /\ UNCHANGED <<idvars, callvars, lockvars>>
    \/ DiscardClient /\ UNCHANGED <<idvars, callvars, lockvars>>

HandleSpec == HandleInit /\ [][HandleNext]_vars

\* C33: discarding a handle closes the transport only when it is the last
\* one: while the client's list or another API object still holds the
\* connection, discarding one API object leaves the socket as it was.
C33_OnlyLastHandleCloses ==
    [][(handles' # handles /\ handles' \subseteq handles /\ handles' # {})
           => ready_state' = ready_state]_vars

====
